---- MODULE Spec2Model ----
(***************************************************************************)
(* State-machine model of the AR business-card page script.                *)
(*                                                                         *)
(* src/unnamed/part_000 is the full script (overlay visibility, renderer   *)
(* output hiding, compositor passes); src/main.js is the reduced script    *)
(* that only loads the card and wires the three buttons.  The browser      *)
(* event loop runs one callback at a time, so every action below is one    *)
(* callback (or one continuation after an await) run to its next await.    *)
(***************************************************************************)
EXTENDS Integers, Sequences, FiniteSets, TLC

VARIABLES
    script,           \* which script the page runs: "part_000" or "main.js"
    urlId,            \* the raw "id" query parameter of window.location
    serverConfig,     \* what cards.json holds on the server
    mainPc,           \* position of main(): "boot", "fetching", "ready", "failed"
    failure,          \* why main() rejected ("" while it has not)
    cardId,           \* const cardId of main()
    config,           \* const config of main()
    status,           \* $("status").textContent
    noticeCount,      \* how often the unknown-id notice was written by setStatus
    igHref,           \* $("igBtn").href
    videoBtnShown,    \* $("videoBtn").style.display = "inline-block"
    trackListeners,   \* targetFound/targetLost listeners are attached to the anchor
    clickListeners,   \* click listeners are attached to the three buttons
    entities,         \* every a-entity created so far; an entity's id is its index
    anchorChildren,   \* ids of the child entities of the anchor, in DOM order
    spawnedEntities,  \* the module-level array spawnedEntities (ids)
    assets,           \* the <video> children of the assets element, in DOM order
    anchorVisible,    \* anchor.object3D.visible
    sceneShown,       \* canvases and scene root are styled visible (forceHideElement)
    startDisabled,    \* startBtn.disabled
    stopDisabled,     \* stopBtn.disabled
    engineAvailable,  \* sceneEl.systems["mindar-image-system"] exists
    engineRunning,    \* the tracking engine is running (camera video exists)
    targetInView,     \* the engine currently detects the marker
    pendingStart,     \* start handlers suspended at "await mindarSystem.start()"
    pendingStop,      \* stop handlers suspended at "await mindarSystem.stop()"
    hideTimers,       \* pending setTimeout(showScene(false)) callbacks
    passTimers,       \* pending setTimeout(iosForceCanvasAboveCamera) callbacks
    passes,           \* running iosForceCanvasAboveCamera intervals: their tries
    camBehind,        \* the camera video carries the pass's styling
    canvasAbove,      \* the canvas carries the pass's styling
    videoHandlers,    \* video-click handlers suspended at "await v.play()"
    uncaught,         \* a handler's promise rejected with nobody catching it
    loop              \* a polling loop started by a direct call of its function

inputVars  == <<script, urlId, serverConfig, loop>>
loadVars   == <<script, urlId, serverConfig, loop, mainPc, failure, cardId, config,
                noticeCount, igHref, videoBtnShown, trackListeners, clickListeners,
                anchorChildren, spawnedEntities>>
engineVars == <<engineAvailable, engineRunning, targetInView, pendingStart, pendingStop>>
timerVars  == <<hideTimers, passTimers, passes, camBehind, canvasAbove>>
buttonVars == <<startDisabled, stopDisabled>>
lifeVars   == <<anchorVisible, sceneShown, startDisabled, stopDisabled, engineAvailable,
                engineRunning, targetInView, pendingStart, pendingStop, hideTimers,
                passTimers, passes, camBehind, canvasAbove, videoHandlers, uncaught>>
vars == <<script, urlId, serverConfig, mainPc, failure, cardId, config, status,
          noticeCount, igHref, videoBtnShown, trackListeners, clickListeners, entities,
          anchorChildren, spawnedEntities, assets, anchorVisible, sceneShown,
          startDisabled, stopDisabled, engineAvailable, engineRunning, targetInView,
          pendingStart, pendingStop, hideTimers, passTimers, passes, camBehind,
          canvasAbove, videoHandlers, uncaught, loop>>

(***************************************************************************)
(* Bounds of the model.                                                    *)
(***************************************************************************)
MaxCardLen == 6        \* longest layer list a card of the startup model holds
MaxPending == 2        \* start and stop handlers awaiting the engine at once
MaxVideoClicks == 1    \* video-click handlers in flight at once
MaxPasses == 2         \* compositor passes running or scheduled at once
MaxHideTimers == 2     \* trailing re-hide timers pending at once
MaxAnimLayers == 2     \* layers of a card of the animation model

(***************************************************************************)
(* Program constants.                                                      *)
(***************************************************************************)
DEFAULT_CARD_ID == <<"card_001">>
MAX_LAYERS == 5
PassMaxTries == 40

(***************************************************************************)
(* Strings.  A string is a sequence: a card id is a sequence of tokens     *)
(* (" " is white space), a src is a sequence of UTF-16 code units.         *)
(***************************************************************************)
SP == " "

RECURSIVE trimStart(_)
trimStart(s) == IF s # <<>> /\ Head(s) = SP THEN trimStart(Tail(s)) ELSE s

RECURSIVE trimEnd(_)
trimEnd(s) ==
    IF s # <<>> /\ s[Len(s)] = SP THEN trimEnd(SubSeq(s, 1, Len(s) - 1)) ELSE s

trim(s) == trimEnd(trimStart(s))

\* a reading of the id parameter that forgets to trim it
getCardIdFromUrl_NoTrim(u) ==
    IF u.present /\ u.text # <<>> THEN u.text ELSE DEFAULT_CARD_ID

\* url.searchParams.get("id") is null (present = FALSE) or a string
getCardIdFromUrl(u) ==
    IF u.present /\ u.text # <<>> /\ trim(u.text) # <<>>
    THEN trim(u.text)
    ELSE DEFAULT_CARD_ID

(***************************************************************************)
(* The configuration object.  config[cardId] is a JavaScript property      *)
(* read: an own key of the parsed JSON object, else a member inherited     *)
(* from Object.prototype, else undefined.                                  *)
(***************************************************************************)
Undefined == [truthy |-> FALSE, instagramUrl |-> "", layers |-> <<>>]
\* Object.prototype.constructor: a function, truthy, with no layers property
InheritedMember == [truthy |-> TRUE, instagramUrl |-> "", layers |-> <<>>]
ObjectPrototypeKeys == {<<"constructor">>}

Lookup(cfg, id) ==
    IF id \in DOMAIN cfg THEN cfg[id]
    ELSE IF id \in ObjectPrototypeKeys THEN InheritedMember
    ELSE Undefined

\* a clamp that lets every layer of the card through
clampLayers_NoLimit(layers) == layers

clampLayers(layers) ==
    SubSeq(layers, 1, IF Len(layers) < MAX_LAYERS THEN Len(layers) ELSE MAX_LAYERS)

(***************************************************************************)
(* btoa and the id of a shared video element.                              *)
(***************************************************************************)
PAD == 64     \* the "=" character of base64, outside the 0..63 alphabet

\* btoa throws InvalidCharacterError on a code unit above 0xFF
BtoaThrows(src) == \E i \in 1..Len(src) : src[i] > 255

RECURSIVE btoa(_)
btoa(s) ==
    IF s = <<>> THEN <<>>
    ELSE IF Len(s) = 1 THEN
        <<s[1] \div 4, (s[1] % 4) * 16, PAD, PAD>>
    ELSE IF Len(s) = 2 THEN
        <<s[1] \div 4, (s[1] % 4) * 16 + s[2] \div 16, (s[2] % 16) * 4, PAD>>
    ELSE
        <<s[1] \div 4, (s[1] % 4) * 16 + s[2] \div 16,
          (s[2] % 16) * 4 + s[3] \div 64, s[3] % 64>>
        \o btoa(SubSeq(s, 4, Len(s)))

IsNotPad(c) == c # PAD

\* `vid_${btoa(layer.src).replace(/=/g, "")}`
VidIdOf(src) == SelectSeq(btoa(src), IsNotPad)

(***************************************************************************)
(* The status readout: the message kind and the card id it quotes.         *)
(***************************************************************************)
Msg(kind) == [kind |-> kind, id |-> <<>>]
MsgId(kind, id) == [kind |-> kind, id |-> id]

(***************************************************************************)
(* Layer factory.  A build state holds what the layer loop has changed so  *)
(* far; threw is set when ensureVideoAsset's btoa raised, which ends       *)
(* main().                                                                 *)
(***************************************************************************)
\* an absent or empty type is "", an absent or empty src is <<>>: both falsy
Falsy(layer) == layer.type = "" \/ layer.src = <<>>

\* a factory that hands the configured spin to layer-anim
makeEntityCommon_KeepsSpin(layer) ==
    [visible |-> TRUE,
     layerAnim |-> IF layer.anim.float # 0 \/ layer.anim.spinY # 0
                   THEN [attached |-> TRUE, float |-> layer.anim.float,
                         spinY |-> layer.anim.spinY]
                   ELSE [attached |-> FALSE, float |-> 0, spinY |-> 0],
     variant |-> "",
     type |-> layer.type,
     src |-> layer.src,
     vid |-> <<>>,
     posY |-> 0,
     rotY |-> 0]

\* part_000 passes spinY: 0 to layer-anim and attaches it for a float only
makeEntityCommon(layer) ==
    [visible |-> TRUE,                       \* a new entity's object3D is visible
     layerAnim |-> IF layer.anim.float # 0
                   THEN [attached |-> TRUE, float |-> layer.anim.float, spinY |-> 0]
                   ELSE [attached |-> FALSE, float |-> 0, spinY |-> 0],
     variant |-> "",
     type |-> layer.type,
     src |-> layer.src,
     vid |-> <<>>,
     posY |-> 0,                             \* object3D.position.y - baseY
     rotY |-> 0]                             \* object3D.rotation.y, in degrees

\* anchor.appendChild(e); spawnedEntities.push(e)
Attach(b, e) ==
    [b EXCEPT !.entities = Append(@, e),
              !.children = Append(@, Len(b.entities) + 1),
              !.spawned = Append(@, Len(b.entities) + 1)]

addImageLayer(b, layer) ==
    Attach(b, [makeEntityCommon(layer) EXCEPT !.variant = "image"])

addModelLayer(b, layer) ==
    Attach(b, [makeEntityCommon(layer) EXCEPT !.variant = "model"])

HasAsset(as, vidId) == \E i \in 1..Len(as) : as[i].id = vidId

\* the asset list after ensureVideoAsset(layer) returned
ensureVideoAsset(as, layer) ==
    IF HasAsset(as, VidIdOf(layer.src)) THEN as
    ELSE Append(as, [id |-> VidIdOf(layer.src), src |-> layer.src,
                     paused |-> TRUE, pos |-> 0, muted |-> TRUE])

addVideoLayer(b, layer) ==
    IF BtoaThrows(layer.src)
    THEN [b EXCEPT !.threw = TRUE,
                   !.entities = Append(@, makeEntityCommon(layer))]
    ELSE [Attach(b, [makeEntityCommon(layer) EXCEPT
                        !.variant = "video", !.vid = VidIdOf(layer.src)])
             EXCEPT !.assets = ensureVideoAsset(@, layer)]

\* one iteration of "for (const layer of layers)"
LayerStep(b, layer) ==
    IF b.threw \/ Falsy(layer) THEN b
    ELSE IF layer.type = "image" THEN addImageLayer(b, layer)
    ELSE IF layer.type = "gif" THEN addImageLayer(b, layer)
    ELSE IF layer.type = "model" THEN addModelLayer(b, layer)
    ELSE IF layer.type = "video" THEN addVideoLayer(b, layer)
    ELSE b

RECURSIVE BuildLayers(_, _)
BuildLayers(b, layers) ==
    IF layers = <<>> THEN b
    ELSE BuildLayers(LayerStep(b, Head(layers)), Tail(layers))

showVideoButtonIfNeeded(layers) == \E i \in 1..Len(layers) : layers[i].type = "video"

(***************************************************************************)
(* Overlay visibility and video reset.                                     *)
(***************************************************************************)
Range(s) == {s[i] : i \in 1..Len(s)}

\* el.object3D.visible = v for every el of the id list
SetAllVisible(es, ids, v) ==
    [i \in 1..Len(es) |-> IF i \in Range(ids) THEN [es[i] EXCEPT !.visible = v] ELSE es[i]]

\* pause(), currentTime = 0, muted = true on every video under the assets
ResetVideos(as) ==
    [i \in 1..Len(as) |-> [as[i] EXCEPT !.paused = TRUE, !.pos = 0, !.muted = TRUE]]

\* a reset that hides the overlays and rewinds the videos but leaves the anchor
hideAllOverlaysAndReset_KeepsAnchor ==
    /\ anchorVisible' = anchorVisible
    /\ entities' = SetAllVisible(entities, spawnedEntities, FALSE)
    /\ assets' = ResetVideos(assets)

\* hideAllOverlaysAndReset(): anchor and every spawned entity invisible, every
\* video paused, rewound and muted
hideAllOverlaysAndReset ==
    /\ anchorVisible' = FALSE
    /\ entities' = SetAllVisible(entities, spawnedEntities, FALSE)
    /\ assets' = ResetVideos(assets)

(***************************************************************************)
(* Inputs: the page URL and the served configuration.                      *)
(***************************************************************************)
SrcA == <<97>>            \* "a"
SrcB == <<98, 99>>        \* "bc"
SrcWide == <<26085>>      \* one code unit above 0xFF

NoAnim == [float |-> 0, spinY |-> 0]
Layer(t, s) == [type |-> t, src |-> s, anim |-> NoAnim]

LayerTypes == {"image", "gif", "video", "model", ""}
LayerPool == {Layer(t, s) : t \in LayerTypes, s \in {<<>>, SrcA, SrcWide}}

\* a layer list of length n alternating two layers of the pool
Alternating(n, a, b) == [i \in 1..n |-> IF i % 2 = 1 THEN a ELSE b]
LayerLists == {Alternating(n, a, b) : n \in 0..MaxCardLen, a \in LayerPool, b \in LayerPool}

Card(layers) == [truthy |-> TRUE, instagramUrl |-> "", layers |-> layers]
OtherCard == Card(<<Layer("model", SrcA)>>)
OTHER_CARD_ID == <<"card_002">>

\* configurations with the default card, the other card, both or neither
StartupConfigs ==
    {<<>>}
    \cup {(DEFAULT_CARD_ID :> Card(l)) : l \in LayerLists}
    \cup {(OTHER_CARD_ID :> Card(l)) : l \in LayerLists}
    \cup {(DEFAULT_CARD_ID :> Card(l)) @@ (OTHER_CARD_ID :> OtherCard) : l \in LayerLists}

UrlIds ==
    {[present |-> FALSE, text |-> <<>>],
     [present |-> TRUE, text |-> <<>>],
     [present |-> TRUE, text |-> <<SP, SP>>],
     [present |-> TRUE, text |-> <<"card_001">>],
     [present |-> TRUE, text |-> <<SP, "card_002", SP>>],
     [present |-> TRUE, text |-> <<"card_999">>],
     [present |-> TRUE, text |-> <<"constructor">>]}

\* the configurations the lifecycle model runs with
LifecycleConfigs ==
    {<<>>,
     (DEFAULT_CARD_ID :> Card(<<Layer("video", SrcA), Layer("video", SrcB),
                                Layer("model", SrcA)>>))}
LifecycleUrlIds == {[present |-> FALSE, text |-> <<>>]}

(***************************************************************************)
(* The page before DOMContentLoaded.                                       *)
(***************************************************************************)
\* no polling loop was started by a direct call
NoLoop == [fn |-> "none", tries |-> 0, fixes |-> 0, found |-> 0, cleared |-> FALSE]

InitPage ==
    /\ loop = NoLoop
    /\ mainPc = "boot"
    /\ failure = ""
    /\ cardId = <<>>
    /\ config = <<>>
    /\ status = Msg("")
    /\ noticeCount = 0
    /\ igHref = ""
    /\ videoBtnShown = FALSE
    /\ trackListeners = FALSE
    /\ clickListeners = FALSE
    /\ spawnedEntities = <<>>
    /\ assets = <<>>
    /\ anchorVisible = TRUE
    /\ sceneShown = TRUE
    /\ startDisabled = FALSE
    /\ stopDisabled = TRUE
    /\ engineAvailable = FALSE
    /\ engineRunning = FALSE
    /\ targetInView = FALSE
    /\ pendingStart = 0
    /\ pendingStop = 0
    /\ hideTimers = 0
    /\ passTimers = 0
    /\ passes = <<>>
    /\ camBehind = FALSE
    /\ canvasAbove = FALSE
    /\ videoHandlers = <<>>
    /\ uncaught = FALSE

\* the anchor as the page's markup delivers it: without children, or with a
\* child element of its own (the markup is not part of the scripts)
MarkupChild ==
    [visible |-> TRUE, layerAnim |-> [attached |-> FALSE, float |-> 0, spinY |-> 0],
     variant |-> "markup", type |-> "", src |-> <<>>, vid |-> <<>>, posY |-> 0, rotY |-> 0]
EmptyAnchor == entities = <<>> /\ anchorChildren = <<>>
AnchorWithMarkup == entities = <<MarkupChild>> /\ anchorChildren = <<1>>

Init ==
    /\ script = "part_000"
    /\ urlId \in LifecycleUrlIds
    /\ serverConfig \in LifecycleConfigs
    /\ InitPage
    /\ EmptyAnchor

InitStartup ==
    /\ script \in {"part_000", "main.js"}
    /\ urlId \in UrlIds
    /\ serverConfig \in StartupConfigs
    /\ InitPage
    /\ (EmptyAnchor \/ AnchorWithMarkup)

(***************************************************************************)
(* main(): DOMContentLoaded up to "await loadJSON", then the rest in one   *)
(* task once the fetch has settled.  Both scripts share the first part.    *)
(***************************************************************************)
DOMContentLoaded ==
    /\ mainPc = "boot"
    /\ cardId' = getCardIdFromUrl(urlId)
    /\ status' = MsgId("Loading", cardId')
    /\ mainPc' = "fetching"
    /\ UNCHANGED <<inputVars, failure, config, noticeCount, igHref, videoBtnShown,
                   trackListeners, clickListeners, entities, anchorChildren,
                   spawnedEntities, assets>>
    /\ UNCHANGED lifeVars

\* a failed load whose error never reaches the status readout
LoadFailed_StatusUntouched ==
    /\ mainPc = "fetching"
    /\ \E why \in {"transport", "http", "json"} :
          /\ failure' = why
          /\ status' = status
    /\ mainPc' = "failed"
    /\ UNCHANGED <<inputVars, cardId, config, noticeCount, igHref, videoBtnShown,
                   trackListeners, clickListeners, entities, anchorChildren,
                   spawnedEntities, assets>>
    /\ UNCHANGED lifeVars

\* fetch rejected (transport), !res.ok (http) or res.json() rejected (json):
\* main() rejects and the DOMContentLoaded handler's catch writes the error
LoadFailed ==
    /\ mainPc = "fetching"
    /\ \E why \in {"transport", "http", "json"} :
          /\ failure' = why
          /\ status' = Msg("Error: " \o why)
    /\ mainPc' = "failed"
    /\ UNCHANGED <<inputVars, cardId, config, noticeCount, igHref, videoBtnShown,
                   trackListeners, clickListeners, entities, anchorChildren,
                   spawnedEntities, assets>>
    /\ UNCHANGED lifeVars

\* const chosen = card || config[DEFAULT_CARD_ID]
Chosen(cfg, id) ==
    IF Lookup(cfg, id).truthy THEN Lookup(cfg, id) ELSE Lookup(cfg, DEFAULT_CARD_ID)

\* a build that starts from the anchor's present children
ClearedBuild_KeepsChildren ==
    [entities |-> entities, children |-> anchorChildren, spawned |-> <<>>,
     assets |-> assets, threw |-> FALSE]

\* the build state the layer loop starts from: clearAnchor, spawnedEntities.length = 0
ClearedBuild ==
    [entities |-> entities, children |-> <<>>, spawned |-> <<>>, assets |-> assets,
     threw |-> FALSE]

\* part_000's main() from the resolved fetch to its end
Loaded ==
    /\ script = "part_000"
    /\ mainPc = "fetching"
    /\ config' = serverConfig
    /\ LET card == Lookup(config', cardId)
           chosen == Chosen(config', cardId)
           layers == clampLayers(chosen.layers)
           b == BuildLayers(ClearedBuild, layers)
       IN  /\ noticeCount' = IF card.truthy THEN noticeCount ELSE noticeCount + 1
           /\ IF ~chosen.truthy THEN
                 \* throw new Error("cards.json must include ...")
                 /\ failure' = "nodefault"
                 /\ status' = Msg("Error: nodefault")
                 /\ mainPc' = "failed"
                 /\ UNCHANGED <<igHref, videoBtnShown, trackListeners, clickListeners,
                                entities, anchorChildren, spawnedEntities, assets,
                                anchorVisible, sceneShown>>
              ELSE
                 /\ igHref' = IF chosen.instagramUrl = ""
                              THEN "https://instagram.com/" ELSE chosen.instagramUrl
                 /\ videoBtnShown' = showVideoButtonIfNeeded(layers)
                 /\ trackListeners' = TRUE
                 /\ anchorChildren' = b.children
                 /\ spawnedEntities' = b.spawned
                 /\ IF b.threw THEN
                       \* btoa raised inside the layer loop
                       /\ failure' = "btoa"
                       /\ status' = Msg("Error: btoa")
                       /\ mainPc' = "failed"
                       /\ entities' = b.entities
                       /\ assets' = b.assets
                       /\ UNCHANGED <<clickListeners, anchorVisible, sceneShown>>
                    ELSE
                       /\ failure' = ""
                       /\ status' = Msg("Ready")
                       /\ mainPc' = "ready"
                       /\ sceneShown' = FALSE
                       /\ anchorVisible' = FALSE
                       /\ entities' = SetAllVisible(b.entities, b.spawned, FALSE)
                       /\ assets' = ResetVideos(b.assets)
                       /\ clickListeners' = TRUE
    /\ UNCHANGED <<inputVars, cardId>>
    /\ UNCHANGED <<startDisabled, stopDisabled, engineAvailable, engineRunning,
                   targetInView, pendingStart, pendingStop, hideTimers, passTimers,
                   passes, camBehind, canvasAbove, videoHandlers, uncaught>>

(***************************************************************************)
(* src/main.js: its layer factory keeps no spawnedEntities array, passes   *)
(* the configured spin on, has no gif branch, and main() neither hides     *)
(* anything nor listens to tracking events.                                *)
(***************************************************************************)
MainJsMakeEntityCommon(layer) ==
    [visible |-> TRUE,
     layerAnim |-> IF layer.anim.float # 0 \/ layer.anim.spinY # 0
                   THEN [attached |-> TRUE, float |-> layer.anim.float,
                         spinY |-> layer.anim.spinY]
                   ELSE [attached |-> FALSE, float |-> 0, spinY |-> 0],
     variant |-> "",
     type |-> layer.type,
     src |-> layer.src,
     vid |-> <<>>,
     posY |-> 0,                             \* object3D.position.y - baseY
     rotY |-> 0]                             \* object3D.rotation.y, in degrees

\* anchor.appendChild(e)
MainJsAttach(b, e) ==
    [b EXCEPT !.entities = Append(@, e),
              !.children = Append(@, Len(b.entities) + 1)]

MainJsAddVideoLayer(b, layer) ==
    IF BtoaThrows(layer.src)
    THEN [b EXCEPT !.threw = TRUE,
                   !.entities = Append(@, MainJsMakeEntityCommon(layer))]
    ELSE [MainJsAttach(b, [MainJsMakeEntityCommon(layer) EXCEPT
                              !.variant = "video", !.vid = VidIdOf(layer.src)])
             EXCEPT !.assets = ensureVideoAsset(@, layer)]

MainJsLayerStep(b, layer) ==
    IF b.threw \/ Falsy(layer) THEN b
    ELSE IF layer.type = "image"
         THEN MainJsAttach(b, [MainJsMakeEntityCommon(layer) EXCEPT !.variant = "image"])
    ELSE IF layer.type = "model"
         THEN MainJsAttach(b, [MainJsMakeEntityCommon(layer) EXCEPT !.variant = "model"])
    ELSE IF layer.type = "video" THEN MainJsAddVideoLayer(b, layer)
    ELSE b

RECURSIVE MainJsBuildLayers(_, _)
MainJsBuildLayers(b, layers) ==
    IF layers = <<>> THEN b
    ELSE MainJsBuildLayers(MainJsLayerStep(b, Head(layers)), Tail(layers))

\* main.js's main() from the resolved fetch to its end
MainJsLoaded ==
    /\ script = "main.js"
    /\ mainPc = "fetching"
    /\ config' = serverConfig
    /\ LET card == Lookup(config', cardId)
           chosen == Chosen(config', cardId)
           layers == clampLayers(chosen.layers)
           b == MainJsBuildLayers(ClearedBuild, layers)
       IN  /\ noticeCount' = IF card.truthy THEN noticeCount ELSE noticeCount + 1
           /\ IF ~chosen.truthy THEN
                 /\ failure' = "nodefault"
                 /\ status' = Msg("Error: nodefault")
                 /\ mainPc' = "failed"
                 /\ UNCHANGED <<igHref, videoBtnShown, clickListeners, entities,
                                anchorChildren, assets>>
              ELSE
                 /\ igHref' = IF chosen.instagramUrl = ""
                              THEN "https://instagram.com/" ELSE chosen.instagramUrl
                 /\ videoBtnShown' = showVideoButtonIfNeeded(layers)
                 /\ anchorChildren' = b.children
                 /\ entities' = b.entities
                 /\ assets' = b.assets
                 /\ IF b.threw THEN
                       /\ failure' = "btoa"
                       /\ status' = Msg("Error: btoa")
                       /\ mainPc' = "failed"
                       /\ UNCHANGED clickListeners
                    ELSE
                       /\ failure' = ""
                       /\ status' = Msg("Ready")
                       /\ mainPc' = "ready"
                       /\ clickListeners' = TRUE
    /\ UNCHANGED <<inputVars, cardId, trackListeners, spawnedEntities>>
    /\ UNCHANGED lifeVars

NextStartup == DOMContentLoaded \/ LoadFailed \/ Loaded \/ MainJsLoaded

SpecStartup == InitStartup /\ [][NextStartup]_vars

(***************************************************************************)
(* The layer-anim component (part_000): once the card is loaded, A-Frame   *)
(* calls tick(t, dt) on every entity that carries it.  Float amplitudes    *)
(* and spins are whole numbers; sin() is sampled at -1, 0 and 1; a tick    *)
(* lasts one second, so rotation.y advances by spinY degrees.              *)
(***************************************************************************)
AnimFloats == {0, 1}
AnimSpins == {0, 90, -90}
AnimLayer(t, f, sp) == [type |-> t, src |-> SrcA, anim |-> [float |-> f, spinY |-> sp]]
AnimLayerPool == {AnimLayer(t, f, sp) : t \in {"image", "model"}, f \in AnimFloats, sp \in AnimSpins}
AnimLayerLists == UNION {[1..n -> AnimLayerPool] : n \in 1..MaxAnimLayers}

InitAnim ==
    /\ script = "part_000"
    /\ urlId \in LifecycleUrlIds
    /\ serverConfig \in {(DEFAULT_CARD_ID :> Card(l)) : l \in AnimLayerLists}
    /\ InitPage
    /\ EmptyAnchor

\* tick(t, dt) of the layer-anim component on entity i
LayerAnimTick(i) ==
    /\ mainPc = "ready"
    /\ i \in Range(anchorChildren)
    /\ entities[i].layerAnim.attached
    /\ \E sin \in {-1, 0, 1} :
          entities' = [entities EXCEPT
             ![i].posY = IF entities[i].layerAnim.float > 0
                         THEN sin * entities[i].layerAnim.float ELSE @,
             ![i].rotY = IF entities[i].layerAnim.spinY # 0
                         THEN (@ + entities[i].layerAnim.spinY) % 360 ELSE @]
    /\ UNCHANGED <<loadVars, status, assets, anchorVisible, sceneShown, buttonVars,
                   engineVars, timerVars, videoHandlers, uncaught>>

NextAnim ==
    \/ DOMContentLoaded
    \/ Loaded
    \/ \E i \in 1..MaxAnimLayers : LayerAnimTick(i)

SpecAnim == InitAnim /\ [][NextAnim]_vars

(***************************************************************************)
(* The tracking engine and the scene (external): the engine system appears *)
(* once the scene has loaded; start() and stop() settle some time after the *)
(* call, either way; a running engine reports the marker found and lost in *)
(* turn.                                                                   *)
(***************************************************************************)
SceneLoaded ==
    /\ ~engineAvailable
    /\ engineAvailable' = TRUE
    /\ UNCHANGED <<loadVars, status, entities, assets, anchorVisible, sceneShown,
                   buttonVars, engineRunning, targetInView, pendingStart, pendingStop,
                   timerVars, videoHandlers, uncaught>>

\* room for one more handler awaiting the engine
PendingRoom == pendingStart + pendingStop < MaxPending

\* room for one more immediate pass and one more delayed pass
PassRoom == Len(passes) + passTimers + 2 <= MaxPasses

(***************************************************************************)
(* Start button (part_000).                                                *)
(***************************************************************************)
\* a Start handler that reveals the scene before it looks for the engine
StartClick_ShowsSceneFirst ==
    /\ clickListeners
    /\ ~startDisabled
    /\ sceneShown' = TRUE
    /\ hideAllOverlaysAndReset
    /\ IF ~engineAvailable THEN
          /\ status' = Msg("NotReady")
          /\ UNCHANGED pendingStart
       ELSE
          /\ PendingRoom
          /\ status' = Msg("Starting")
          /\ pendingStart' = pendingStart + 1
    /\ UNCHANGED <<loadVars, buttonVars, engineAvailable, engineRunning, targetInView,
                   pendingStop, timerVars, videoHandlers, uncaught>>

\* startBtn click handler up to "await mindarSystem.start()"
StartClick ==
    /\ clickListeners
    /\ ~startDisabled
    /\ IF ~engineAvailable THEN
          \* setStatus("Starting AR..."), then the not-ready notice, return
          /\ status' = Msg("NotReady")
          /\ UNCHANGED <<entities, assets, anchorVisible, sceneShown, pendingStart>>
       ELSE
          /\ PendingRoom
          /\ status' = Msg("Starting")
          /\ sceneShown' = TRUE
          /\ hideAllOverlaysAndReset
          /\ pendingStart' = pendingStart + 1
    /\ UNCHANGED <<loadVars, buttonVars, engineAvailable, engineRunning, targetInView,
                   pendingStop, timerVars, videoHandlers, uncaught>>

\* a continuation of the Start handler that forgets to disable Start
StartResolved_StartStaysEnabled ==
    /\ pendingStart > 0
    /\ PassRoom
    /\ pendingStart' = pendingStart - 1
    /\ engineRunning' = TRUE
    /\ camBehind' = (engineRunning /\ camBehind)
    /\ passes' = Append(passes, 0)
    /\ passTimers' = passTimers + 1
    /\ stopDisabled' = FALSE
    /\ status' = Msg("Started")
    /\ UNCHANGED <<loadVars, entities, assets, anchorVisible, sceneShown, startDisabled,
                   engineAvailable, targetInView, pendingStop, hideTimers, canvasAbove,
                   videoHandlers, uncaught>>

\* mindarSystem.start() resolved: the rest of the try block
StartResolved ==
    /\ pendingStart > 0
    /\ PassRoom
    /\ pendingStart' = pendingStart - 1
    /\ engineRunning' = TRUE
    /\ camBehind' = (engineRunning /\ camBehind)     \* a fresh camera video
    /\ passes' = Append(passes, 0)
    /\ passTimers' = passTimers + 1
    /\ startDisabled' = TRUE
    /\ stopDisabled' = FALSE
    /\ status' = Msg("Started")
    /\ UNCHANGED <<loadVars, entities, assets, anchorVisible, sceneShown,
                   engineAvailable, targetInView, pendingStop, hideTimers, canvasAbove,
                   videoHandlers, uncaught>>

\* mindarSystem.start() rejected: the catch block
StartRejected ==
    /\ pendingStart > 0
    /\ pendingStart' = pendingStart - 1
    /\ status' = Msg("StartFailed")
    /\ UNCHANGED <<loadVars, entities, assets, anchorVisible, sceneShown, buttonVars,
                   engineAvailable, engineRunning, targetInView, pendingStop, timerVars,
                   videoHandlers, uncaught>>

(***************************************************************************)
(* Stop button (part_000).                                                 *)
(***************************************************************************)
StopClick ==
    /\ clickListeners
    /\ ~stopDisabled
    /\ engineAvailable                   \* if (!mindarSystem) return
    /\ PendingRoom
    /\ hideAllOverlaysAndReset
    /\ pendingStop' = pendingStop + 1
    /\ UNCHANGED <<loadVars, status, sceneShown, buttonVars, engineAvailable,
                   engineRunning, targetInView, pendingStart, timerVars, videoHandlers,
                   uncaught>>

\* mindarSystem.stop() resolved: the rest of the handler
StopResolved ==
    /\ pendingStop > 0
    /\ hideTimers + 2 <= MaxHideTimers
    /\ pendingStop' = pendingStop - 1
    /\ engineRunning' = FALSE
    /\ targetInView' = FALSE
    /\ sceneShown' = FALSE
    /\ hideTimers' = hideTimers + 2
    /\ startDisabled' = FALSE
    /\ stopDisabled' = TRUE
    /\ status' = Msg("Stopped")
    /\ UNCHANGED <<loadVars, entities, assets, anchorVisible, engineAvailable,
                   pendingStart, passTimers, passes, camBehind, canvasAbove,
                   videoHandlers, uncaught>>

\* mindarSystem.stop() rejected: the handler has no try block, so the promise
\* the async handler returned rejects and nothing observes it
StopRejected ==
    /\ pendingStop > 0
    /\ pendingStop' = pendingStop - 1
    /\ uncaught' = TRUE
    /\ UNCHANGED <<loadVars, status, entities, assets, anchorVisible, sceneShown,
                   buttonVars, engineAvailable, engineRunning, targetInView,
                   pendingStart, timerVars, videoHandlers>>

\* setTimeout(() => showScene(sceneEl, false), 50 | 250)
HideTimerFired ==
    /\ hideTimers > 0
    /\ hideTimers' = hideTimers - 1
    /\ sceneShown' = FALSE
    /\ UNCHANGED <<loadVars, status, entities, assets, anchorVisible, buttonVars,
                   engineVars, passTimers, passes, camBehind, canvasAbove,
                   videoHandlers, uncaught>>

(***************************************************************************)
(* Tracking events: both targetFound listeners, or both targetLost         *)
(* listeners, run in one dispatch.                                         *)
(***************************************************************************)
TargetFound ==
    /\ engineRunning
    /\ ~targetInView
    /\ trackListeners
    /\ PassRoom
    /\ targetInView' = TRUE
    /\ status' = Msg("TargetFound")
    /\ anchorVisible' = TRUE
    /\ entities' = SetAllVisible(entities, spawnedEntities, TRUE)
    /\ passes' = Append(passes, 0)
    /\ passTimers' = passTimers + 1
    /\ UNCHANGED <<loadVars, assets, sceneShown, buttonVars, engineAvailable,
                   engineRunning, pendingStart, pendingStop, hideTimers, camBehind,
                   canvasAbove, videoHandlers, uncaught>>

TargetLost ==
    /\ engineRunning
    /\ targetInView
    /\ trackListeners
    /\ targetInView' = FALSE
    /\ status' = Msg("TargetLost")
    /\ hideAllOverlaysAndReset
    /\ UNCHANGED <<loadVars, sceneShown, buttonVars, engineAvailable, engineRunning,
                   pendingStart, pendingStop, timerVars, videoHandlers, uncaught>>

(***************************************************************************)
(* Compositor pass: iosForceCanvasAboveCamera's interval.                  *)
(***************************************************************************)
RemoveAt(s, i) == SubSeq(s, 1, i - 1) \o SubSeq(s, i + 1, Len(s))

\* pass i has now polled `tries` times.  The interval timers carry no identity
\* the script reads, so the list is kept ordered by tries, most tries first
\* (a new pass, with 0 tries, goes to the end).
Retried(s, i, tries) ==
    LET rest == RemoveAt(s, i)
        k == Cardinality({j \in 1..Len(rest) : rest[j] >= tries})
    IN  SubSeq(rest, 1, k) \o <<tries>> \o SubSeq(rest, k + 1, Len(rest))

\* setTimeout(() => iosForceCanvasAboveCamera(sceneEl), 150 | 300)
PassTimerFired ==
    /\ passTimers > 0
    /\ passTimers' = passTimers - 1
    /\ passes' = Append(passes, 0)
    /\ UNCHANGED <<loadVars, status, entities, assets, anchorVisible, sceneShown,
                   buttonVars, engineVars, hideTimers, camBehind, canvasAbove,
                   videoHandlers, uncaught>>

\* a pass that also styles the canvas visible whenever it finds the canvas
PassTick_RevealsCanvas(i) ==
    /\ i \in 1..Len(passes)
    /\ LET tries == passes[i] + 1
           camVideo == engineRunning
           canvas == engineAvailable
       IN  /\ sceneShown' = (canvas \/ sceneShown)
           /\ IF ~camVideo \/ ~canvas THEN
                 /\ passes' = IF tries > PassMaxTries THEN RemoveAt(passes, i)
                              ELSE Retried(passes, i, tries)
                 /\ UNCHANGED <<camBehind, canvasAbove>>
              ELSE
                 /\ camBehind' = TRUE
                 /\ canvasAbove' = TRUE
                 /\ passes' = RemoveAt(passes, i)
    /\ UNCHANGED <<loadVars, status, entities, assets, anchorVisible,
                   buttonVars, engineVars, hideTimers, passTimers, videoHandlers,
                   uncaught>>

\* one tick of pass i; the camera video exists while the engine runs, the
\* canvas since the scene loaded
PassTick(i) ==
    /\ i \in 1..Len(passes)
    /\ LET tries == passes[i] + 1
           camVideo == engineRunning
           canvas == engineAvailable
       IN  IF ~camVideo \/ ~canvas THEN
              /\ passes' = IF tries > PassMaxTries THEN RemoveAt(passes, i)
                           ELSE Retried(passes, i, tries)
              /\ UNCHANGED <<camBehind, canvasAbove>>
           ELSE
              /\ camBehind' = TRUE
              /\ canvasAbove' = TRUE
              /\ passes' = RemoveAt(passes, i)
    /\ UNCHANGED <<loadVars, status, entities, assets, anchorVisible, sceneShown,
                   buttonVars, engineVars, hideTimers, passTimers, videoHandlers,
                   uncaught>>

(***************************************************************************)
(* Video button.  A handler walks the videos under the assets in document  *)
(* order (the list does not change after main()); a handler's entry is the *)
(* index of the video whose play() it awaits.                              *)
(***************************************************************************)
\* v.muted = false; v.play(): an allowed play() unpauses at once, a blocked
\* one leaves the video as it was
PlayCalled(as, i, allowed) ==
    [as EXCEPT ![i].muted = FALSE, ![i].paused = IF allowed THEN FALSE ELSE @]

VideoClick ==
    /\ clickListeners
    /\ videoBtnShown
    /\ Len(videoHandlers) < MaxVideoClicks
    /\ IF assets = <<>> THEN
          /\ status' = Msg("VideoStarted")
          /\ UNCHANGED <<assets, videoHandlers>>
       ELSE
          /\ \E allowed \in BOOLEAN : assets' = PlayCalled(assets, 1, allowed)
          /\ videoHandlers' = Append(videoHandlers, 1)
          /\ UNCHANGED status
    /\ UNCHANGED <<loadVars, entities, anchorVisible, sceneShown, buttonVars,
                   engineVars, timerVars, uncaught>>

\* the awaited play() of handler h settled (resolved, or rejected and caught):
\* the loop goes on to the next video, or the handler ends
PlaySettled(h) ==
    /\ h \in 1..Len(videoHandlers)
    /\ LET i == videoHandlers[h]
       IN  IF i < Len(assets) THEN
              /\ \E allowed \in BOOLEAN : assets' = PlayCalled(assets, i + 1, allowed)
              /\ videoHandlers' = [videoHandlers EXCEPT ![h] = i + 1]
              /\ UNCHANGED status
           ELSE
              /\ videoHandlers' = RemoveAt(videoHandlers, h)
              /\ status' = Msg("VideoStarted")
              /\ UNCHANGED assets
    /\ UNCHANGED <<loadVars, entities, anchorVisible, sceneShown, buttonVars,
                   engineVars, timerVars, uncaught>>

\* playback moves a playing video off position 0
VideoAdvanced(i) ==
    /\ i \in 1..Len(assets)
    /\ ~assets[i].paused
    /\ assets[i].pos = 0
    /\ assets' = [assets EXCEPT ![i].pos = 1]
    /\ UNCHANGED <<loadVars, status, entities, anchorVisible, sceneShown, buttonVars,
                   engineVars, timerVars, videoHandlers, uncaught>>

(***************************************************************************)
(* The lifecycle model: part_000 from page load on.                        *)
(***************************************************************************)
\* The compositor passes write only passes, camBehind and canvasAbove, which no
\* handler reads, so every run has the same handler steps as a run in which the
\* outstanding passes tick before the engine's stop() resolves; the lifecycle
\* model explores those runs.
PassesSettled == passes = <<>> /\ passTimers = 0

StopResolvedSettled == PassesSettled /\ StopResolved

Next ==
    \/ DOMContentLoaded
    \/ LoadFailed
    \/ Loaded
    \/ SceneLoaded
    \/ StartClick
    \/ StartResolved
    \/ StartRejected
    \/ StopClick
    \/ StopResolvedSettled
    \/ StopRejected
    \/ HideTimerFired
    \/ TargetFound
    \/ TargetLost
    \/ PassTimerFired
    \/ \E i \in 1..MaxPasses : PassTick(i)
    \/ VideoClick
    \/ \E h \in 1..MaxVideoClicks : PlaySettled(h)
    \/ \E i \in 1..MAX_LAYERS : VideoAdvanced(i)

Spec == Init /\ [][Next]_vars

(***************************************************************************)
(* The compositor passes on their own: the Start and Stop handlers, the    *)
(* tracking events, the timers and the interval callbacks, with stop()     *)
(* free to resolve while a pass is still polling (the camera video is gone *)
(* from then on).                                                          *)
(***************************************************************************)
InitPass ==
    /\ script = "part_000"
    /\ urlId \in LifecycleUrlIds
    /\ serverConfig = (DEFAULT_CARD_ID :> Card(<<Layer("video", SrcA)>>))
    /\ InitPage
    /\ EmptyAnchor

NextPass ==
    \/ DOMContentLoaded
    \/ Loaded
    \/ SceneLoaded
    \/ StartClick
    \/ StartResolved
    \/ StopClick
    \/ StopResolved
    \/ HideTimerFired
    \/ TargetFound
    \/ TargetLost
    \/ PassTimerFired
    \/ \E i \in 1..MaxPasses : PassTick(i)

SpecPass == InitPass /\ [][NextPass]_vars

(***************************************************************************)
(* Properties.                                                             *)
(***************************************************************************)
\* the spawned overlays, in spawn order
Spawned == [i \in 1..Len(spawnedEntities) |-> entities[spawnedEntities[i]]]

AllShown == anchorVisible /\ \A i \in 1..Len(Spawned) : Spawned[i].visible
AllHidden == ~anchorVisible /\ \A i \in 1..Len(Spawned) : ~Spawned[i].visible

VideosReset ==
    \A i \in 1..Len(assets) : assets[i].paused /\ assets[i].pos = 0 /\ assets[i].muted

\* C1: once a Stop click has run to completion (status "Stopped"), the anchor
\* and every spawned overlay are hidden, whatever tracking events interleaved
\* with the handler.
C1_StoppedMeansHidden == status.kind = "Stopped" => AllHidden

\* C2: the step in which the engine reports the marker found leaves the anchor
\* and every spawned overlay visible; the step in which a running engine
\* reports it lost leaves them all hidden.
C2_FoundShowsLostHides ==
    [][/\ (~targetInView /\ targetInView') => AllShown'
       /\ (targetInView /\ ~targetInView' /\ engineRunning') => AllHidden']_vars

\* C2 witness: overlays exist and a targetLost has hidden them again after a
\* targetFound had shown them.
C2_Witness ==
    /\ status.kind = "TargetLost"
    /\ Len(Spawned) > 0
    /\ AllHidden

\* C3: after targetLost's reset the videos stay paused, at 0 and muted over
\* every step that is not a new click on the video control.
C3_ResetStaysUntilClick ==
    [][(/\ status.kind = "TargetLost"
        /\ VideosReset
        /\ ~(Len(videoHandlers') > Len(videoHandlers))) => VideosReset']_vars

\* C5: no rejection of the engine's start() or stop() stays uncaught.
C5_RejectionsCaught == ~uncaught

\* TrackingState of the data model, read off the engine
TrackingState ==
    IF ~engineRunning THEN "Idle" ELSE IF targetInView THEN "Tracking" ELSE "Scanning"

\* the page is ready and the engine has not appeared yet: nothing but the
\* status readout (and the videos, by the video control) differs from the
\* state main() left
QuietBeforeEngine ==
    /\ ~sceneShown
    /\ AllHidden
    /\ ~startDisabled
    /\ stopDisabled
    /\ pendingStart = 0
    /\ pendingStop = 0
    /\ ~engineRunning
    /\ passes = <<>>
    /\ passTimers = 0
    /\ hideTimers = 0
    /\ status.kind \in {"Ready", "NotReady", "VideoStarted"}

\* C4: while the engine is not available a Start click only writes the
\* not-ready notice: no engine call, output and overlays hidden, controls as
\* they were, no corrective pass; and a start() that resolves from Idle leads
\* to Scanning with the controls swapped and the started status.
C4_NotReadyThenRetry ==
    [][/\ (script' = "part_000" /\ mainPc' = "ready" /\ ~engineAvailable')
              => QuietBeforeEngine'
       /\ (status'.kind = "NotReady" /\ status # status')
              => UNCHANGED <<loadVars, entities, assets, anchorVisible, sceneShown,
                             buttonVars, engineVars, timerVars, videoHandlers, uncaught>>
       /\ (StartResolved /\ TrackingState = "Idle")
              => /\ TrackingState' = "Scanning"
                 /\ startDisabled' /\ ~stopDisabled'
                 /\ status' = Msg("Started")]_vars

\* C4 witness: a Start click has reported not-ready.
C4_Witness == status.kind = "NotReady" /\ ~engineAvailable /\ mainPc = "ready"

\* a fatal startup error of the kinds the configuration resolver names
FatalStartup ==
    mainPc = "failed" /\ failure \in {"transport", "http", "json", "nodefault"}

\* C8: after a fatal startup error the status readout shows the error, no
\* overlay is spawned, and no later step (a click included) changes anything
\* of the page; only the scene may still finish loading.
C8_FatalStartupHalts ==
    [][/\ FatalStartup' => /\ status' = Msg("Error: " \o failure')
                           /\ Spawned' = <<>>
                           /\ anchorChildren' = <<>>
       /\ FatalStartup => UNCHANGED <<loadVars, status, entities, assets, anchorVisible,
                                      sceneShown, buttonVars, engineRunning,
                                      targetInView, pendingStart, pendingStop,
                                      timerVars, videoHandlers, uncaught>>]_vars

\* C8 witness: startup failed for want of the default card and the scene has
\* loaded since, so only the missing listeners keep the buttons inert.
C8_Witness == FatalStartup /\ failure = "nodefault" /\ engineAvailable

(***************************************************************************)
(* Properties of card loading, for both scripts.                           *)
(***************************************************************************)
\* the overlays the script put under the anchor (main.js keeps no
\* spawnedEntities array)
IsSpawnedId(id) == entities[id].variant # "markup"
Children ==
    LET ids == SelectSeq(anchorChildren, IsSpawnedId)
    IN  [i \in 1..Len(ids) |-> entities[ids[i]]]
Overlays == IF script = "main.js" THEN Children ELSE Spawned

HasTypeAndSrc(layer) == ~Falsy(layer)
ValidLayers(layers) == SelectSeq(clampLayers(layers), HasTypeAndSrc)
VariantOf(type) == IF type = "gif" THEN "image" ELSE type

\* one overlay per valid layer among the first MAX_LAYERS, in layer order
BuiltFrom(layers) ==
    /\ Len(Overlays) = Len(ValidLayers(layers))
    /\ \A i \in 1..Len(Overlays) :
          /\ Overlays[i].type = ValidLayers(layers)[i].type
          /\ Overlays[i].src = ValidLayers(layers)[i].src
          /\ Overlays[i].variant = VariantOf(Overlays[i].type)

\* main() got past the configuration lookup
LoadFinished == mainPc = "ready" \/ failure \in {"nodefault", "btoa"}

\* C6: with the default card configured, a requested id that is no key of the
\* configuration gets the default card's overlays and exactly one unknown-id
\* notice; a requested id that is a key gets no notice.
C6_UnknownIdFallsBack ==
    (mainPc = "ready" /\ DEFAULT_CARD_ID \in DOMAIN config)
        => IF cardId \in DOMAIN config
           THEN noticeCount = 0
           ELSE noticeCount = 1 /\ BuiltFrom(config[DEFAULT_CARD_ID].layers)

\* C7: a configuration without the default card makes startup fail with the
\* configuration error and no overlays, whatever id is requested.
C7_NoDefaultIsFatal ==
    (LoadFinished /\ DEFAULT_CARD_ID \notin DOMAIN config)
        => failure = "nodefault" /\ Overlays = <<>>

\* C9: when the unknown-id notice was written for a fallback to the default
\* card, the status readout shows it once loading has finished, with the
\* default card's overlays.
C9_NoticeShownAfterLoad ==
    (mainPc = "ready" /\ noticeCount = 1 /\ DEFAULT_CARD_ID \in DOMAIN config)
        => /\ status = MsgId("UnknownId", cardId)
           /\ BuiltFrom(config[DEFAULT_CARD_ID].layers)

\* C10: each of the first MAX_LAYERS layers of the chosen card that has a type
\* and a src yields exactly one overlay of its variant, in layer order.
C10_EveryValidLayerSpawns ==
    (LoadFinished /\ Chosen(config, cardId).truthy)
        => BuiltFrom(Chosen(config, cardId).layers)

Min(a, b) == IF a < b THEN a ELSE b

IsVideoCall(layers, i) == HasTypeAndSrc(layers[i]) /\ layers[i].type = "video"

\* the loop stops at the first video layer whose src btoa rejects
LoopEnd(layers) ==
    IF \E i \in 1..Len(layers) : IsVideoCall(layers, i) /\ BtoaThrows(layers[i].src)
    THEN CHOOSE i \in 1..Len(layers) :
            /\ IsVideoCall(layers, i) /\ BtoaThrows(layers[i].src)
            /\ \A j \in 1..(i - 1) : ~(IsVideoCall(layers, j) /\ BtoaThrows(layers[j].src))
    ELSE Len(layers)

\* the source URLs passed to ensureVideoAsset while the card was loaded
PassedSrcs ==
    LET layers == clampLayers(Chosen(config, cardId).layers)
    IN  {layers[i].src : i \in {j \in 1..LoopEnd(layers) : IsVideoCall(layers, j)}}

\* C12: once a card load has ended, there is one shared video per distinct
\* source URL passed to ensureVideoAsset, no two shared videos have the same
\* src, and every video overlay references the shared video of its src.
C12_OneResourcePerSrc ==
    (LoadFinished /\ Chosen(config, cardId).truthy) =>
        /\ Len(assets) = Cardinality(PassedSrcs)
        /\ \A i, j \in 1..Len(assets) : assets[i].src = assets[j].src => i = j
        /\ \A i \in 1..Len(Overlays) :
              Overlays[i].variant = "video" =>
                 \E k \in 1..Len(assets) :
                    assets[k].id = Overlays[i].vid /\ assets[k].src = Overlays[i].src

\* the id query parameter is missing, empty or made of whitespace only
BlankId == ~urlId.present \/ \A i \in 1..Len(urlId.text) : urlId.text[i] = SP

\* the default card holds exactly one layer, an image with a src
SingleImageDefault ==
    /\ DEFAULT_CARD_ID \in DOMAIN config
    /\ Len(config[DEFAULT_CARD_ID].layers) = 1
    /\ config[DEFAULT_CARD_ID].layers[1].type = "image"
    /\ config[DEFAULT_CARD_ID].layers[1].src # <<>>

\* C13: with a missing, empty or whitespace-only id parameter the card id is
\* the default one and, the default card being configured, no unknown-id
\* notice is written; when that card holds a single image layer, loading ends
\* with exactly one image overlay and the video control hidden.
C13_BlankIdIsDefault ==
    (BlankId /\ mainPc # "boot") =>
        /\ cardId = DEFAULT_CARD_ID
        /\ (LoadFinished /\ DEFAULT_CARD_ID \in DOMAIN config) => noticeCount = 0
        /\ (LoadFinished /\ SingleImageDefault) =>
              /\ mainPc = "ready"
              /\ Len(Overlays) = 1
              /\ Overlays[1].variant = "image"
              /\ ~videoBtnShown

\* C13 witness: a whitespace-only id, the single-image default card loaded.
C13_Witness ==
    /\ urlId.present /\ urlId.text # <<>> /\ BlankId
    /\ mainPc = "ready" /\ SingleImageDefault /\ Len(Overlays) = 1

StartedNoStop == engineRunning /\ startDisabled /\ pendingStop = 0 /\ ~uncaught

\* C15: from a successful Start until the next Stop click the renderer output
\* stays revealed: no step taken while AR is started hides it.
C15_StartedStaysRevealed ==
    [][(StartedNoStop /\ sceneShown /\ StartedNoStop') => sceneShown']_vars

\* the renderer output is hidden, tracking is Idle and Start can be clicked
HiddenIdle == ~sceneShown /\ TrackingState = "Idle" /\ ~startDisabled

\* C16: the renderer output is hidden when card loading ends, and a Start
\* click that ends in the not-ready notice, or in a rejection of the only
\* pending start() while tracking is Idle, leaves it hidden with tracking
\* Idle and Start enabled.
C16_RevealedOnlyWhileStarted ==
    [][/\ (mainPc = "fetching" /\ mainPc' = "ready") => HiddenIdle'
       /\ (status # status' /\ status'.kind = "NotReady") => HiddenIdle'
       /\ (StartRejected /\ TrackingState = "Idle" /\ pendingStart = 1)
              => HiddenIdle']_vars

\* C17: at most one start() and at most one stop() of the engine is pending
\* at any time.
C17_NoOverlappingCalls == pendingStart <= 1 /\ pendingStop <= 1

\* C18: whenever no Start or Stop handler awaits the engine, Start is enabled
\* exactly when the engine is stopped and Stop is enabled exactly when the
\* engine is running.
C18_ControlsMatchEngine ==
    (mainPc = "ready" /\ pendingStart = 0 /\ pendingStop = 0) =>
        /\ ~startDisabled <=> TrackingState = "Idle"
        /\ ~stopDisabled <=> TrackingState \in {"Scanning", "Tracking"}

\* C18 witness: Start was clicked twice while pending, one start() resolved
\* and the other was rejected; nothing is pending and the engine runs.
C18_Witness ==
    /\ pendingStart = 0 /\ pendingStop = 0
    /\ status.kind = "StartFailed"
    /\ TrackingState \in {"Scanning", "Tracking"}

\* C19: no compositor pass runs more than 40 polling ticks: a pass that has
\* polled 40 times has cleared its timer.
C19_PassWithinFortyTicks == \A i \in 1..Len(passes) : passes[i] < 40

\* C20: after part_000 has loaded a card, spawnedEntities lists, each once
\* and in layer order, exactly the entities under the anchor, and these are
\* the overlays built from the card's layers; nothing that was under the
\* anchor before the load remains.
C20_SpawnedSetIsTheBuild ==
    (script = "part_000" /\ LoadFinished /\ Chosen(config, cardId).truthy) =>
        /\ spawnedEntities = anchorChildren
        /\ \A i, j \in 1..Len(spawnedEntities) :
              spawnedEntities[i] = spawnedEntities[j] => i = j
        /\ \A i \in 1..Len(Spawned) : Spawned[i].variant # "markup"
        /\ mainPc = "ready" => BuiltFrom(Chosen(config, cardId).layers)

\* C20 witness: a card of several overlays loaded over an anchor that had a
\* child before.
C20_Witness ==
    /\ script = "part_000" /\ mainPc = "ready"
    /\ Len(Spawned) >= 2
    /\ \E i \in 1..Len(entities) : entities[i].variant = "markup"

\* a step in which a running pass polled: no timer fired and no pass was
\* started, and a pass advanced its tries or cleared its interval
PassPolled == passTimers' = passTimers /\ passes' # passes /\ Len(passes') <= Len(passes)

\* C21: a tick of a compositor pass leaves the renderer output's shown state,
\* the anchor and overlay visibility, the Start and Stop controls, the status
\* readout and every shared video as they were; and while the status reads
\* stopped the output is hidden, whatever passes are still polling.
C21_PassTouchesOnlyLayering ==
    [][/\ PassPolled => UNCHANGED <<sceneShown, anchorVisible, entities, buttonVars,
                                    status, assets>>
       /\ status'.kind = "Stopped" => ~sceneShown']_vars

\* C21 witness: Stop has completed, the output is hidden, and a pass that was
\* pending then has polled since without finding the camera video; the card
\* has an overlay and a shared video.
C21_Witness ==
    /\ status.kind = "Stopped" /\ ~sceneShown /\ ~engineRunning
    /\ \E i \in 1..Len(passes) : passes[i] > 0
    /\ Len(Spawned) > 0 /\ Len(assets) > 0

(***************************************************************************)
(* The three polling loops, each started by a direct call of its function. *)
(* iosForceCanvasAboveCamera is the loop the start handler schedules;      *)
(* bringCanvasAboveVideoSafariHack and forceIosLayerOrder have no caller   *)
(* in the script, so a call is an input of this specification.  The DOM    *)
(* the loops query is the page's: the camera video exists while the engine *)
(* runs, the canvas (class a-canvas) since the scene loaded, and the       *)
(* assets' videos since main() built them.                                 *)
(***************************************************************************)
BringMaxTries == 40
ForceMaxTries == 15

LoopFns == {"iosForceCanvasAboveCamera", "bringCanvasAboveVideoSafariHack",
            "forceIosLayerOrder"}

\* getMindarCameraVideo(): the video that has a srcObject
CamVideoFound == engineRunning
\* sceneEl.renderer.domElement, "canvas.a-canvas", ".a-canvas", "canvas"
CanvasFound == engineAvailable
\* document.querySelector("video"): the first video of the document
AnyVideoFound == Len(assets) > 0 \/ engineRunning

\* the styling lands on the camera video when that is the document's first
\* video; with videos under the assets the order is the engine's choice
FirstVideoStyled ==
    IF ~engineRunning THEN camBehind' = camBehind
    ELSE IF Len(assets) = 0 THEN camBehind' = TRUE
    ELSE camBehind' \in {camBehind, TRUE}

\* a call of one of the three functions: let tries = 0; setInterval(...)
LoopCalled(fn) ==
    /\ loop = NoLoop
    /\ loop' = [fn |-> fn, tries |-> 0, fixes |-> 0, found |-> 0, cleared |-> FALSE]
    /\ UNCHANGED <<script, urlId, serverConfig, mainPc, failure, cardId, config, status,
                   noticeCount, igHref, videoBtnShown, trackListeners, clickListeners,
                   entities, anchorChildren, spawnedEntities, assets, lifeVars>>

\* the loop's record after a tick: found is the first tick on which all the
\* targets existed, fixes counts the ticks that wrote styling
Ticked(l, tries, allFound, styled, cleared) ==
    [l EXCEPT !.tries = tries,
              !.found = IF @ = 0 /\ allFound THEN tries ELSE @,
              !.fixes = IF styled THEN @ + 1 ELSE @,
              !.cleared = cleared]

\* a variant of the Safari loop that keeps its interval after the fix
bringCanvasAboveVideoSafariHackTick_KeepsPolling ==
    /\ loop.fn = "bringCanvasAboveVideoSafariHack" /\ ~loop.cleared
    /\ LET n == loop.tries + 1
           found == AnyVideoFound /\ CanvasFound
       IN  IF ~found THEN
              /\ loop' = Ticked(loop, n, FALSE, FALSE, n >= BringMaxTries)
              /\ UNCHANGED <<camBehind, canvasAbove>>
           ELSE
              /\ FirstVideoStyled
              /\ canvasAbove' = TRUE
              /\ loop' = Ticked(loop, n, TRUE, TRUE, n >= BringMaxTries)
    /\ UNCHANGED <<script, urlId, serverConfig, mainPc, failure, cardId, config, status,
                   noticeCount, igHref, videoBtnShown, trackListeners, clickListeners,
                   entities, anchorChildren, spawnedEntities, assets, anchorVisible,
                   sceneShown, buttonVars, engineVars, hideTimers, passTimers, passes,
                   videoHandlers, uncaught>>

\* one tick of iosForceCanvasAboveCamera
iosForceCanvasAboveCameraTick ==
    /\ loop.fn = "iosForceCanvasAboveCamera" /\ ~loop.cleared
    /\ LET tries == loop.tries + 1
       IN  IF ~CamVideoFound \/ ~CanvasFound THEN
              /\ loop' = Ticked(loop, tries, FALSE, FALSE, tries > PassMaxTries)
              /\ UNCHANGED <<camBehind, canvasAbove>>
           ELSE
              /\ camBehind' = TRUE
              /\ canvasAbove' = TRUE
              /\ loop' = Ticked(loop, tries, TRUE, TRUE, TRUE)
    /\ UNCHANGED <<script, urlId, serverConfig, mainPc, failure, cardId, config, status,
                   noticeCount, igHref, videoBtnShown, trackListeners, clickListeners,
                   entities, anchorChildren, spawnedEntities, assets, anchorVisible,
                   sceneShown, buttonVars, engineVars, hideTimers, passTimers, passes,
                   videoHandlers, uncaught>>

\* one tick of bringCanvasAboveVideoSafariHack
bringCanvasAboveVideoSafariHackTick ==
    /\ loop.fn = "bringCanvasAboveVideoSafariHack" /\ ~loop.cleared
    /\ LET n == loop.tries + 1
           found == AnyVideoFound /\ CanvasFound
       IN  IF ~found THEN
              /\ loop' = Ticked(loop, n, FALSE, FALSE, n >= BringMaxTries)
              /\ UNCHANGED <<camBehind, canvasAbove>>
           ELSE
              /\ FirstVideoStyled
              /\ canvasAbove' = TRUE
              /\ loop' = Ticked(loop, n, TRUE, TRUE, TRUE)
    /\ UNCHANGED <<script, urlId, serverConfig, mainPc, failure, cardId, config, status,
                   noticeCount, igHref, videoBtnShown, trackListeners, clickListeners,
                   entities, anchorChildren, spawnedEntities, assets, anchorVisible,
                   sceneShown, buttonVars, engineVars, hideTimers, passTimers, passes,
                   videoHandlers, uncaught>>

\* one tick of forceIosLayerOrder: whatever exists is styled, on every tick
forceIosLayerOrderTick ==
    /\ loop.fn = "forceIosLayerOrder" /\ ~loop.cleared
    /\ LET tries == loop.tries + 1
       IN  /\ IF AnyVideoFound THEN FirstVideoStyled ELSE camBehind' = camBehind
           /\ canvasAbove' = (canvasAbove \/ CanvasFound)
           /\ loop' = Ticked(loop, tries, AnyVideoFound /\ CanvasFound,
                             AnyVideoFound \/ CanvasFound, tries >= ForceMaxTries)
    /\ UNCHANGED <<script, urlId, serverConfig, mainPc, failure, cardId, config, status,
                   noticeCount, igHref, videoBtnShown, trackListeners, clickListeners,
                   entities, anchorChildren, spawnedEntities, assets, anchorVisible,
                   sceneShown, buttonVars, engineVars, hideTimers, passTimers, passes,
                   videoHandlers, uncaught>>

LoopConfigs == {(DEFAULT_CARD_ID :> Card(<<Layer("video", SrcA)>>)),
                (DEFAULT_CARD_ID :> Card(<<Layer("image", SrcA)>>))}

InitLoops ==
    /\ script = "part_000"
    /\ urlId \in LifecycleUrlIds
    /\ serverConfig \in LoopConfigs
    /\ InitPage
    /\ EmptyAnchor

NextLoops ==
    \/ DOMContentLoaded
    \/ Loaded
    \/ SceneLoaded
    \/ StartClick
    \/ StartResolved
    \/ StopClick
    \/ StopResolved
    \/ \E fn \in LoopFns : LoopCalled(fn)
    \/ iosForceCanvasAboveCameraTick
    \/ bringCanvasAboveVideoSafariHackTick
    \/ forceIosLayerOrderTick

SpecLoops == InitLoops /\ [][NextLoops]_vars

\* the two loops that stop on finding their targets
StopsWhenFound == {"iosForceCanvasAboveCamera", "bringCanvasAboveVideoSafariHack"}

\* the loop has stopped on the first tick that found its targets, with one fix
StoppedAtFirstFind ==
    /\ loop.fixes <= 1
    /\ loop.found > 0 => loop.cleared /\ loop.tries = loop.found /\ loop.fixes = 1

\* C22 as the specification states it: each of the three polling loops stops
\* at the first tick on which its target elements are found and applies its
\* layering fix at most once.
C22_EveryLoopStopsWhenFound == loop.fn \in LoopFns => StoppedAtFirstFind

\* C22, as the code has it: iosForceCanvasAboveCamera and
\* bringCanvasAboveVideoSafariHack stop at the first tick on which their
\* targets are found and apply their fix once; forceIosLayerOrder never stops
\* on finding its targets: each of its ticks styles whichever of them exist,
\* and it stops at its 15th tick, found or not.
C22_TwoLoopsStopWhenFound ==
    [][/\ loop'.fn \in StopsWhenFound => StoppedAtFirstFind'
       /\ loop'.fn = "forceIosLayerOrder" =>
             /\ loop'.cleared = (loop'.tries >= ForceMaxTries)
             /\ loop'.tries = loop.tries + 1 =>
                   loop'.fixes = loop.fixes +
                                 (IF AnyVideoFound \/ CanvasFound THEN 1 ELSE 0)]_vars

\* forceIosLayerOrder found all its targets and went on to style them again
C22_Witness ==
    /\ loop.fn = "forceIosLayerOrder"
    /\ loop.found > 0 /\ loop.tries > loop.found
    /\ loop.fixes >= 2
    /\ ~loop.cleared

====
